---- MODULE Spec2Model ----
(***************************************************************************)
(* Room booking backend of Kedarling Yatri Niwas: the Room Directory, the  *)
(* Booking Ledger and the request handlers that read and write them        *)
(* (POST /api/bookings, PUT /api/bookings/:id/payment,                     *)
(* PUT /api/bookings/:id/checkout, GET /api/rooms/available).              *)
(*                                                                         *)
(* The repository holds two revisions of the server: the category-aware    *)
(* one (src/unnamed/part_000) and the older one (src/index.js).  The       *)
(* variable revision says which of the two is running; it never changes.   *)
(*                                                                         *)
(* Every handler is an async function: each await is a point where other   *)
(* requests run, so a handler is a sequence of steps, one per await.       *)
(* Writes made with { session } are staged in the transaction and become   *)
(* visible together at commitTransaction; a write to a document that       *)
(* another open transaction has written, or that was committed after the   *)
(* transaction's snapshot, is refused with a write conflict.               *)
(***************************************************************************)
EXTENDS Integers, Sequences, FiniteSets, TLC

(***************************************************************************)
(* Bounds of the model.                                                    *)
(***************************************************************************)
MaxBookings == 2
MaxRequests == 3
MaxDay == 3
MaxLedger == 2
MaxClock == 2

Procs == {"r1", "r2"}

\* the slot of a client that sends one request at a time
Client == CHOOSE p \in Procs : TRUE

(***************************************************************************)
(* Room Directory: the seed data of initializeRooms (a part of it).        *)
(***************************************************************************)
Revisions == {"part_000", "index"}

NoCategory == "none"

SeedRoomsPart000 ==
  << [roomCategory |-> "Suite", type |-> "Non-AC", roomNumber |-> "Suite Non-AC 1", price |-> 1500],
     [roomCategory |-> "Standard", type |-> "AC", roomNumber |-> "101", price |-> 1200] >>

SeedRoomsIndex ==
  << [roomCategory |-> NoCategory, type |-> "AC", roomNumber |-> "AC-1", price |-> 2500],
     [roomCategory |-> NoCategory, type |-> "Non-AC", roomNumber |-> "NAC-1", price |-> 1800] >>

SeedRooms(rev) == IF rev = "part_000" THEN SeedRoomsPart000 ELSE SeedRoomsIndex

RoomNumbers(rev) == { SeedRooms(rev)[i].roomNumber : i \in 1..Len(SeedRooms(rev)) }

RoomRecord(rev, rn) ==
  CHOOSE r \in { SeedRooms(rev)[i] : i \in 1..Len(SeedRooms(rev)) } : r.roomNumber = rn

\* initializeRooms: every seeded room takes the schema default isAvailable = true
initializeRooms(rev) == [rn \in RoomNumbers(rev) |-> TRUE]

UnknownRoom == "999"

(***************************************************************************)
(* Dates.  A Date is its time value in half days; an Invalid Date (the     *)
(* result of new Date on a missing or empty field) is InvalidDate.         *)
(***************************************************************************)
InvalidDate == 0
MsPerDay == 2

DayTexts == << "2024-01-10", "2024-01-11", "2024-01-12", "2024-01-13", "2024-01-14" >>
NoonTexts == << "2024-01-10T12:00", "2024-01-11T12:00", "2024-01-12T12:00",
                "2024-01-13T12:00", "2024-01-14T12:00" >>

\* new Date(text)
NewDate(text) ==
  IF \E i \in 1..Len(DayTexts) : DayTexts[i] = text
  THEN MsPerDay * (CHOOSE i \in 1..Len(DayTexts) : DayTexts[i] = text)
  ELSE IF \E i \in 1..Len(NoonTexts) : NoonTexts[i] = text
  THEN MsPerDay * (CHOOSE i \in 1..Len(NoonTexts) : NoonTexts[i] = text) + 1
  ELSE InvalidDate

\* Math.ceil(a / b) for b > 0
Ceil(a, b) == IF a % b = 0 THEN a \div b ELSE (a \div b) + 1

(***************************************************************************)
(* Schemas (roomSchema, bookingSchema) and what Mongoose validates on save *)
(***************************************************************************)
RoomCategories == {"Suite", "Standard"}
RoomTypes == {"AC", "Non-AC", "General"}
PaymentMethods == {"online", "cash"}
PaymentStatuses == {"Pending", "Completed"}
BookingStatuses == {"Confirmed", "Cancelled", "Completed"}

\* a multipart form field that was not sent, or was sent empty
Empty == ""

\* JSON.parse(formData.selectedRooms): a field that is missing or is not JSON throws
JSONparse(field) ==
  IF field.json THEN [threw |-> FALSE, value |-> field.rooms]
  ELSE [threw |-> TRUE, value |-> << >>]

\* nights = Math.ceil((checkOut - checkIn) / (1000 * 60 * 60 * 24))
Nights(checkIn, checkOut) == Ceil(checkOut - checkIn, MsPerDay)

RECURSIVE SumOver(_, _)
\* selectedRooms.reduce((sum, room) => sum + (room.price * nights), 0)
SumOver(selected, nights) ==
  IF selected = << >> THEN 0
  ELSE selected[1].price * nights + SumOver(Tail(selected), nights)

TotalAmount(selected, nights) == SumOver(selected, nights)

\* selectedRooms.map(r => r.roomNumber)
RoomNumbersOf(selected) == [i \in 1..Len(selected) |-> selected[i].roomNumber]

RoomSetOf(selected) == { selected[i].roomNumber : i \in 1..Len(selected) }

\* the category looked up for the last selected room instead of the first
LastRoomCategory(rev, selected) ==
  IF selected[Len(selected)].roomNumber \in RoomNumbers(rev)
  THEN RoomRecord(rev, selected[Len(selected)].roomNumber).roomCategory
  ELSE "Standard"

\* firstRoom ? firstRoom.roomCategory : 'Standard'   (part_000 only)
FirstRoomCategory(rev, selected) ==
  IF selected[1].roomNumber \in RoomNumbers(rev)
  THEN RoomRecord(rev, selected[1].roomNumber).roomCategory
  ELSE "Standard"

\* req.file ? `/uploads/${req.file.filename}` : undefined
UploadPath == "/uploads/paymentProof"

\* the ternary of paymentStatus with 'Completed' for a payment that is not cash
NewBookingPaidOnline(rev, form, selected, now) ==
  [ customerName  |-> form.customerName,
    customerPhone |-> form.customerPhone,
    roomCategory  |-> IF rev = "part_000" THEN FirstRoomCategory(rev, selected) ELSE NoCategory,
    roomType      |-> form.roomType,
    selectedRooms |-> selected,
    checkInDate   |-> NewDate(form.checkInDate),
    checkOutDate  |-> NewDate(form.checkOutDate),
    totalAmount   |-> TotalAmount(selected, Nights(NewDate(form.checkInDate), NewDate(form.checkOutDate))),
    paymentMethod |-> form.paymentMethod,
    paymentStatus |-> IF form.paymentMethod = "cash" THEN "Pending" ELSE "Completed",
    paymentProof  |-> IF form.paymentProof THEN UploadPath ELSE Empty,
    bookingStatus |-> "Confirmed",
    bookingDate   |-> now ]

\* new Booking({...}): the document built from the form, with the schema defaults
\* (bookingDate: { default: Date.now } is the clock's reading when the document is built)
NewBooking(rev, form, selected, now) ==
  [ customerName  |-> form.customerName,
    customerPhone |-> form.customerPhone,
    roomCategory  |-> IF rev = "part_000" THEN FirstRoomCategory(rev, selected) ELSE NoCategory,
    roomType      |-> form.roomType,
    selectedRooms |-> selected,
    checkInDate   |-> NewDate(form.checkInDate),
    checkOutDate  |-> NewDate(form.checkOutDate),
    totalAmount   |-> TotalAmount(selected, Nights(NewDate(form.checkInDate), NewDate(form.checkOutDate))),
    paymentMethod |-> form.paymentMethod,
    paymentStatus |-> IF form.paymentMethod = "cash" THEN "Pending" ELSE "Pending",
    paymentProof  |-> IF form.paymentProof THEN UploadPath ELSE Empty,
    bookingStatus |-> "Confirmed",
    bookingDate   |-> now ]

\* the validation booking.save() runs: required strings are non-empty, enums hold,
\* dates are valid Dates, totalAmount is a number (NaN when a date is invalid and a
\* room is selected)
ValidateBooking(rev, b) ==
  /\ b.customerName # Empty
  /\ b.customerPhone # Empty
  /\ rev = "part_000" => b.roomCategory \in RoomCategories
  /\ b.roomType \in RoomTypes
  /\ b.checkInDate # InvalidDate
  /\ b.checkOutDate # InvalidDate
  /\ b.paymentMethod \in PaymentMethods
  /\ b.paymentStatus \in PaymentStatuses
  /\ b.bookingStatus \in BookingStatuses

\* the synchronous part of POST /api/bookings before booking.save() is awaited:
\* does it throw
CreateThrows(rev, form) ==
  \/ JSONparse(form.selectedRooms).threw
  \/ rev = "part_000" /\ JSONparse(form.selectedRooms).value = << >>

(***************************************************************************)
(* State                                                                   *)
(***************************************************************************)
VARIABLES
  revision,   \* which revision of the server runs
  rooms,      \* Room collection: roomNumber -> isAvailable (committed)
  bookings,   \* Booking collection, in insertion order; a booking's _id is its position
  pc,         \* each request slot's position in its handler
  doc,        \* the Booking document the handler holds: the one booking.save({ session })
              \* staged (POST /api/bookings), or the one findById returned (checkout)
  held,       \* the documents the slot's open transaction has written (and locks)
  stale,      \* the documents committed by others since the transaction's snapshot
  conc,       \* the slots whose transaction was in progress when this one started
  sink,       \* how many times the request called sendBookingEmails
  res,        \* the response the request sent (status 0: none yet)
  requests,   \* how many requests the server has received
  query,      \* the query of the last availability request
  session     \* each request's database session: none, inTransaction, committed, ended

vars == << revision, rooms, bookings, pc, doc, held, stale, conc, sink, res, requests, query, session >>

NoBooking == [ customerName |-> Empty ]
NoDoc == [ id |-> 0, booking |-> NoBooking ]
NoDocs == [ rooms |-> {}, bookings |-> {} ]
NoQuery == [ checkIn |-> Empty, checkOut |-> Empty, category |-> Empty, type |-> Empty ]
NoResponse ==
  [ status |-> 0, message |-> "", emailSent |-> FALSE, booking |-> 0, roomNumbers |-> << >> ]

Response(status, message) == [ NoResponse EXCEPT !.status = status, !.message = message ]

\* positions at which session.startTransaction() has run and neither
\* commitTransaction nor abortTransaction has completed
TxnPcs == { "c_try", "c_saved", "c_updated", "c_catch",
            "k_try", "k_found", "k_updated", "k_saved", "k_catch" }

\* positions at which the transaction has a snapshot (its first operation has run)
SnapshotPcs == { "c_saved", "c_updated", "k_found", "k_updated", "k_saved" }

InTxn(p) == pc[p] \in TxnPcs

Free(p) == pc[p] \in {"idle", "done"}

\* the bookingDate of the Booking document built last, stored or still in a handler
LatestBookingDate ==
  LET dates == { bookings[i].bookingDate : i \in 1..Len(bookings) }
                 \cup { doc[p].booking.bookingDate :
                          p \in { q \in Procs : "bookingDate" \in DOMAIN doc[q].booking } }
                 \cup {0}
  IN CHOOSE d \in dates : \A e \in dates : e <= d

\* Date.now(): the millisecond of the clock, which never runs backwards; two
\* documents built in the same millisecond read the same value
DateNow == { t \in 1..MaxClock : LatestBookingDate <= t /\ t <= LatestBookingDate + 1 }

\* the server after db.once('open'): rooms seeded, no booking, no request in progress
\* (received: the requests it has answered before, all of them failed)
Boot(received) ==
  /\ revision \in Revisions
  /\ rooms = initializeRooms(revision)
  /\ bookings = << >>
  /\ pc = [p \in Procs |-> "idle"]
  /\ doc = [p \in Procs |-> NoDoc]
  /\ held = [p \in Procs |-> NoDocs]
  /\ stale = [p \in Procs |-> NoDocs]
  /\ conc = [p \in Procs |-> {}]
  /\ sink = [p \in Procs |-> 0]
  /\ res = [p \in Procs |-> NoResponse]
  /\ requests = received
  /\ query = NoQuery
  /\ session = [p \in Procs |-> "none"]

Init == Boot(0)

(***************************************************************************)
(* Transactions ({ session } writes)                                       *)
(***************************************************************************)
\* a write of room rn by p's transaction is refused
RoomConflict(p, rn) ==
  \/ rn \in stale[p].rooms
  \/ \E q \in Procs \ {p} : rn \in held[q].rooms

\* a write of booking id by p's transaction is refused
BookingConflict(p, id) ==
  \/ id \in stale[p].bookings
  \/ \E q \in Procs \ {p} : id \in held[q].bookings

\* the documents written become stale for the other transactions that have a snapshot
StaleAfter(p, written) ==
  [q \in Procs |->
     IF q # p /\ pc[q] \in SnapshotPcs
     THEN [ rooms |-> stale[q].rooms \cup written.rooms,
            bookings |-> stale[q].bookings \cup written.bookings ]
     ELSE stale[q]]

\* const session = await mongoose.startSession(); session.startTransaction();
StartTransaction(p, first) ==
  /\ Free(p)
  /\ requests < MaxRequests
  /\ requests' = requests + 1
  /\ pc' = [pc EXCEPT ![p] = first]
  /\ conc' = [conc EXCEPT ![p] = { q \in Procs \ {p} : InTxn(q) }]
  /\ doc' = [doc EXCEPT ![p] = NoDoc]
  /\ sink' = [sink EXCEPT ![p] = 0]
  /\ res' = [res EXCEPT ![p] = NoResponse]
  /\ session' = [session EXCEPT ![p] = "inTransaction"]
  /\ UNCHANGED << revision, rooms, bookings, held, stale, query >>

\* an awaited operation of the transaction rejects: control goes to the catch block
Throw(p, catch) ==
  /\ pc' = [pc EXCEPT ![p] = catch]
  /\ UNCHANGED << revision, rooms, bookings, doc, held, stale, conc, sink, res, requests, query, session >>

\* the catch block without the finally block: the session is left as it was
AbortAndAnswerNoFinally(p, status, message) ==
  /\ pc' = [pc EXCEPT ![p] = "done"]
  /\ held' = [held EXCEPT ![p] = NoDocs]
  /\ stale' = [stale EXCEPT ![p] = NoDocs]
  /\ doc' = [doc EXCEPT ![p] = NoDoc]
  /\ res' = [res EXCEPT ![p] = Response(status, message)]
  /\ UNCHANGED << revision, rooms, bookings, conc, sink, requests, query, session >>

\* catch (error) { await session.abortTransaction(); res.status(400).json(...) }
\* finally { session.endSession() }
AbortAndAnswer(p, status, message) ==
  /\ pc' = [pc EXCEPT ![p] = "done"]
  /\ held' = [held EXCEPT ![p] = NoDocs]
  /\ stale' = [stale EXCEPT ![p] = NoDocs]
  /\ doc' = [doc EXCEPT ![p] = NoDoc]
  /\ res' = [res EXCEPT ![p] = Response(status, message)]
  /\ session' = [session EXCEPT ![p] = "ended"]
  /\ UNCHANGED << revision, rooms, bookings, conc, sink, requests, query >>

\* catch (error) { await session.abortTransaction(); ... }: abortTransaction itself
\* rejects (the driver refuses it after a commitTransaction that failed, or the
\* storage layer is unreachable).  The rest of the catch block is skipped, so no
\* response is sent; finally { session.endSession() } still runs and discards the
\* transaction; the rejection leaves the async handler, where nothing handles it.
AbortRejects(p) ==
  /\ pc' = [pc EXCEPT ![p] = "unanswered"]
  /\ held' = [held EXCEPT ![p] = NoDocs]
  /\ stale' = [stale EXCEPT ![p] = NoDocs]
  /\ doc' = [doc EXCEPT ![p] = NoDoc]
  /\ session' = [session EXCEPT ![p] = "ended"]
  /\ UNCHANGED << revision, rooms, bookings, conc, sink, res, requests, query >>

(***************************************************************************)
(* Request inputs                                                          *)
(***************************************************************************)
\* the stays a client asks for: check-in before check-out, or a date left empty
StayInputs ==
  { << DayTexts[1], DayTexts[2] >>, << DayTexts[2], DayTexts[3] >>,
    << Empty, DayTexts[2] >>, << DayTexts[1], Empty >> }

\* a selectedRooms entry as the client sends it: the room and the price it shows
Entry(rev, rn) ==
  [ roomNumber |-> rn,
    price |-> IF rn \in RoomNumbers(rev) THEN RoomRecord(rev, rn).price ELSE 1000 ]

\* the selectedRooms field: missing or not JSON, or the JSON text of a list
SelectedInputs(rev) ==
  { [json |-> FALSE, rooms |-> << >>],
    [json |-> TRUE, rooms |-> << Entry(rev, SeedRooms(rev)[1].roomNumber) >>],
    [json |-> TRUE, rooms |-> << Entry(rev, SeedRooms(rev)[1].roomNumber),
                                 Entry(rev, SeedRooms(rev)[2].roomNumber) >>] }

\* a form with every field filled in
FilledForm(selected, stay) ==
  [ customerName  |-> "Asha",
    customerPhone |-> "9876543210",
    roomType      |-> "AC",
    selectedRooms |-> selected,
    checkInDate   |-> stay[1],
    checkOutDate  |-> stay[2],
    paymentMethod |-> "online",
    paymentProof  |-> FALSE ]

\* the forms the clients send: filled in, or with one field left empty
Forms(rev) ==
  { FilledForm(selected, stay) : selected \in SelectedInputs(rev), stay \in StayInputs }
  \cup { [ FilledForm(selected, << DayTexts[1], DayTexts[2] >>) EXCEPT ![field] = Empty ] :
            selected \in { sel \in SelectedInputs(rev) : Len(sel.rooms) = 1 },
            field \in {"customerName", "customerPhone", "roomType"} }

BookingIds == 0..MaxBookings

\* mongoose cannot cast the id to an ObjectId (findById rejects with a CastError)
InvalidId(id) == id = 0

(***************************************************************************)
(* POST /api/bookings                                                      *)
(***************************************************************************)
CreatePending == { p \in Procs : pc[p] \in {"c_try", "c_saved", "c_updated"} }

BeginCreate(p) ==
  /\ Len(bookings) + Cardinality(CreatePending) < MaxBookings
  /\ StartTransaction(p, "c_try")

\* booking.save() without its { session }: the insert is visible at once and the
\* abort does not take it back
CreateSaveNoSession(p, form) ==
  /\ pc[p] = "c_try"
  /\ \E now \in DateNow :
     IF CreateThrows(revision, form)
        \/ ~ValidateBooking(revision, NewBooking(revision, form, JSONparse(form.selectedRooms).value, now))
     THEN Throw(p, "c_catch")
     ELSE /\ pc' = [pc EXCEPT ![p] = "c_saved"]
          /\ bookings' = Append(bookings, NewBooking(revision, form, JSONparse(form.selectedRooms).value, now))
          /\ doc' = [doc EXCEPT ![p] =
                 [id |-> 0,
                  booking |-> NewBooking(revision, form, JSONparse(form.selectedRooms).value, now)]]
          /\ stale' = [stale EXCEPT ![p] = NoDocs]
          /\ UNCHANGED << revision, rooms, held, conc, sink, res, requests, query, session >>

\* try { ... const savedBooking = await booking.save({ session });
CreateSave(p, form) ==
  /\ pc[p] = "c_try"
  /\ \E now \in DateNow :
     IF CreateThrows(revision, form)
        \/ ~ValidateBooking(revision, NewBooking(revision, form, JSONparse(form.selectedRooms).value, now))
     THEN Throw(p, "c_catch")
     ELSE /\ pc' = [pc EXCEPT ![p] = "c_saved"]
          /\ doc' = [doc EXCEPT ![p] =
                 [id |-> 0,
                  booking |-> NewBooking(revision, form, JSONparse(form.selectedRooms).value, now)]]
          /\ stale' = [stale EXCEPT ![p] = NoDocs]
          /\ UNCHANGED << revision, rooms, bookings, held, conc, sink, res, requests, query, session >>

\* Room.updateMany with an empty filter: every room of the directory is matched
CreateUpdateRoomsAll(p) ==
  /\ pc[p] = "c_saved"
  /\ LET matched == RoomNumbers(revision)
     IN IF \E rn \in matched : RoomConflict(p, rn)
        THEN Throw(p, "c_catch")
        ELSE /\ pc' = [pc EXCEPT ![p] = "c_updated"]
             /\ held' = [held EXCEPT ![p].rooms = matched]
             /\ UNCHANGED << revision, rooms, bookings, doc, stale, conc, sink, res, requests, query, session >>

\* Room.updateMany without its { session }: the flags are lowered at once
CreateUpdateRoomsNoSession(p) ==
  /\ pc[p] = "c_saved"
  /\ LET matched == RoomSetOf(doc[p].booking.selectedRooms) \cap RoomNumbers(revision)
     IN /\ pc' = [pc EXCEPT ![p] = "c_updated"]
        /\ rooms' = [rn \in DOMAIN rooms |-> IF rn \in matched THEN FALSE ELSE rooms[rn]]
        /\ UNCHANGED << revision, bookings, doc, held, stale, conc, sink, res, requests, query, session >>

\* await Room.updateMany({ roomNumber: { $in: ... } }, { $set: { isAvailable: false } }, { session })
CreateUpdateRooms(p) ==
  /\ pc[p] = "c_saved"
  /\ LET matched == RoomSetOf(doc[p].booking.selectedRooms) \cap RoomNumbers(revision)
     IN IF \E rn \in matched : RoomConflict(p, rn)
        THEN Throw(p, "c_catch")
        ELSE /\ pc' = [pc EXCEPT ![p] = "c_updated"]
             /\ held' = [held EXCEPT ![p].rooms = matched]
             /\ UNCHANGED << revision, rooms, bookings, doc, stale, conc, sink, res, requests, query, session >>

\* await session.commitTransaction(): the insert and the room updates become visible
CreateCommit(p) ==
  /\ pc[p] = "c_updated"
  /\ pc' = [pc EXCEPT ![p] = "c_email"]
  /\ bookings' = Append(bookings, doc[p].booking)
  /\ rooms' = [rn \in DOMAIN rooms |-> IF rn \in held[p].rooms THEN FALSE ELSE rooms[rn]]
  /\ doc' = [doc EXCEPT ![p] = [id |-> Len(bookings) + 1, booking |-> NoBooking]]
  /\ stale' = [StaleAfter(p, held[p]) EXCEPT ![p] = NoDocs]
  /\ held' = [held EXCEPT ![p] = NoDocs]
  /\ session' = [session EXCEPT ![p] = "committed"]
  /\ UNCHANGED << revision, conc, sink, res, requests, query >>

\* sendBookingEmails without its try/catch: a rejected sendMail reaches the catch
\* block of the handler
CreateSendEmailsThrows(p, sent) ==
  /\ pc[p] = "c_email"
  /\ IF sent
     THEN /\ pc' = [pc EXCEPT ![p] = "done"]
          /\ sink' = [sink EXCEPT ![p] = sink[p] + 1]
          /\ res' = [res EXCEPT ![p] =
                [ status |-> 201, message |-> "Booking created successfully", emailSent |-> sent,
                  booking |-> doc[p].id, roomNumbers |-> << >> ]]
          /\ doc' = [doc EXCEPT ![p] = NoDoc]
          /\ session' = [session EXCEPT ![p] = "ended"]
          /\ UNCHANGED << revision, rooms, bookings, held, stale, conc, requests, query >>
     ELSE /\ pc' = [pc EXCEPT ![p] = "c_catch"]
          /\ sink' = [sink EXCEPT ![p] = sink[p] + 1]
          /\ UNCHANGED << revision, rooms, bookings, doc, held, stale, conc, res, requests, query, session >>

\* const emailSent = await sendBookingEmails(savedBooking): true, or false when
\* sendMail rejects (caught inside); then res.status(201).json({...}) and finally
CreateSendEmails(p, sent) ==
  /\ pc[p] = "c_email"
  /\ pc' = [pc EXCEPT ![p] = "done"]
  /\ sink' = [sink EXCEPT ![p] = sink[p] + 1]
  /\ res' = [res EXCEPT ![p] =
        [ status |-> 201, message |-> "Booking created successfully", emailSent |-> sent,
          booking |-> doc[p].id, roomNumbers |-> << >> ]]
  /\ doc' = [doc EXCEPT ![p] = NoDoc]
  /\ session' = [session EXCEPT ![p] = "ended"]
  /\ UNCHANGED << revision, rooms, bookings, held, stale, conc, requests, query >>

\* a catch block that also sends the emails
CreateCatchNotifies(p) ==
  /\ pc[p] = "c_catch"
  /\ pc' = [pc EXCEPT ![p] = "done"]
  /\ held' = [held EXCEPT ![p] = NoDocs]
  /\ stale' = [stale EXCEPT ![p] = NoDocs]
  /\ doc' = [doc EXCEPT ![p] = NoDoc]
  /\ sink' = [sink EXCEPT ![p] = sink[p] + 1]
  /\ res' = [res EXCEPT ![p] = Response(400, "Failed to create booking")]
  /\ session' = [session EXCEPT ![p] = "ended"]
  /\ UNCHANGED << revision, rooms, bookings, conc, requests, query >>

\* catch (error) { await session.abortTransaction(); res.status(400).json({...}) }
CreateCatch(p) ==
  /\ pc[p] = "c_catch"
  /\ AbortAndAnswer(p, 400, "Failed to create booking")

\* the catch block of POST /api/bookings when its abortTransaction rejects
CreateCatchRejects(p) ==
  /\ pc[p] = "c_catch"
  /\ AbortRejects(p)

\* an awaited storage operation of the handler rejects (the storage layer is
\* unreachable, the operation times out, the write is refused)
RejectCreate(p) ==
  /\ pc[p] \in {"c_try", "c_saved", "c_updated"}
  /\ Throw(p, "c_catch")

(***************************************************************************)
(* PUT /api/bookings/:id/checkout                                          *)
(***************************************************************************)
BeginCheckout(p) ==
  /\ pc[p] \in {"idle", "done"}
  /\ StartTransaction(p, "k_try")

\* a checkout that refuses a booking whose bookingStatus is Completed already
CheckoutFindOnce(p, id) ==
  /\ pc[p] = "k_try"
  /\ IF InvalidId(id)
     THEN Throw(p, "k_catch")
     ELSE IF id > Len(bookings)
     THEN AbortAndAnswer(p, 404, "Booking not found")
     ELSE IF bookings[id].bookingStatus = "Completed"
     THEN AbortAndAnswer(p, 400, "Booking already checked out")
     ELSE /\ pc' = [pc EXCEPT ![p] = "k_found"]
          /\ doc' = [doc EXCEPT ![p] = [id |-> id, booking |-> bookings[id]]]
          /\ stale' = [stale EXCEPT ![p] = NoDocs]
          /\ UNCHANGED << revision, rooms, bookings, held, conc, sink, res, requests, query, session >>

\* a checkout that refuses a booking whose checkOutDate is later than the day of
\* the request (taken to be 2024-01-11)
CheckoutFindDateChecked(p, id) ==
  /\ pc[p] = "k_try"
  /\ IF InvalidId(id)
     THEN Throw(p, "k_catch")
     ELSE IF id > Len(bookings)
     THEN AbortAndAnswer(p, 404, "Booking not found")
     ELSE IF bookings[id].checkOutDate > NewDate(DayTexts[2])
     THEN AbortAndAnswer(p, 400, "Check-out date has not passed")
     ELSE /\ pc' = [pc EXCEPT ![p] = "k_found"]
          /\ doc' = [doc EXCEPT ![p] = [id |-> id, booking |-> bookings[id]]]
          /\ stale' = [stale EXCEPT ![p] = NoDocs]
          /\ UNCHANGED << revision, rooms, bookings, held, conc, sink, res, requests, query, session >>

\* the handler without its if (!booking) block: booking.selectedRooms of null throws
CheckoutFindNoNullCheck(p, id) ==
  /\ pc[p] = "k_try"
  /\ IF InvalidId(id) \/ id > Len(bookings)
     THEN Throw(p, "k_catch")
     ELSE /\ pc' = [pc EXCEPT ![p] = "k_found"]
          /\ doc' = [doc EXCEPT ![p] = [id |-> id, booking |-> bookings[id]]]
          /\ stale' = [stale EXCEPT ![p] = NoDocs]
          /\ UNCHANGED << revision, rooms, bookings, held, conc, sink, res, requests, query, session >>

\* const booking = await Booking.findById(req.params.id).session(session);
\* if (!booking) { await session.abortTransaction(); return res.status(404)... }
CheckoutFind(p, id) ==
  /\ pc[p] = "k_try"
  /\ IF InvalidId(id)
     THEN Throw(p, "k_catch")
     ELSE IF id > Len(bookings)
     THEN AbortAndAnswer(p, 404, "Booking not found")
     ELSE /\ pc' = [pc EXCEPT ![p] = "k_found"]
          /\ doc' = [doc EXCEPT ![p] = [id |-> id, booking |-> bookings[id]]]
          /\ stale' = [stale EXCEPT ![p] = NoDocs]
          /\ UNCHANGED << revision, rooms, bookings, held, conc, sink, res, requests, query, session >>

\* Room.updateMany restricted to the rooms that no other Confirmed booking references
CheckoutUpdateRoomsGuarded(p) ==
  /\ pc[p] = "k_found"
  /\ LET matched == { rn \in RoomSetOf(doc[p].booking.selectedRooms) \cap RoomNumbers(revision) :
                       ~\E j \in 1..Len(bookings) :
                           /\ j # doc[p].id
                           /\ bookings[j].bookingStatus = "Confirmed"
                           /\ rn \in RoomSetOf(bookings[j].selectedRooms) }
     IN IF \E rn \in matched : RoomConflict(p, rn)
        THEN Throw(p, "k_catch")
        ELSE /\ pc' = [pc EXCEPT ![p] = "k_updated"]
             /\ held' = [held EXCEPT ![p].rooms = matched]
             /\ UNCHANGED << revision, rooms, bookings, doc, stale, conc, sink, res, requests, query, session >>

\* Room.updateMany without its { session }: the flags are raised at once
CheckoutUpdateRoomsNoSession(p) ==
  /\ pc[p] = "k_found"
  /\ LET matched == RoomSetOf(doc[p].booking.selectedRooms) \cap RoomNumbers(revision)
     IN /\ pc' = [pc EXCEPT ![p] = "k_updated"]
        /\ rooms' = [rn \in DOMAIN rooms |-> IF rn \in matched THEN TRUE ELSE rooms[rn]]
        /\ UNCHANGED << revision, bookings, doc, held, stale, conc, sink, res, requests, query, session >>

\* await Room.updateMany({ roomNumber: { $in: ... } }, { $set: { isAvailable: true } }, { session })
CheckoutUpdateRooms(p) ==
  /\ pc[p] = "k_found"
  /\ LET matched == RoomSetOf(doc[p].booking.selectedRooms) \cap RoomNumbers(revision)
     IN IF \E rn \in matched : RoomConflict(p, rn)
        THEN Throw(p, "k_catch")
        ELSE /\ pc' = [pc EXCEPT ![p] = "k_updated"]
             /\ held' = [held EXCEPT ![p].rooms = matched]
             /\ UNCHANGED << revision, rooms, bookings, doc, stale, conc, sink, res, requests, query, session >>

\* the document findById returned written back whole and without the session
\* (Booking.replaceOne in place of booking.save({ session }))
CheckoutSaveReplace(p) ==
  /\ pc[p] = "k_updated"
  /\ pc' = [pc EXCEPT ![p] = "k_saved"]
  /\ bookings' = [bookings EXCEPT ![doc[p].id] =
                    [doc[p].booking EXCEPT !.bookingStatus = "Completed"]]
  /\ UNCHANGED << revision, rooms, doc, held, stale, conc, sink, res, requests, query, session >>

\* booking.bookingStatus = 'Completed'; await booking.save({ session });
\* save() writes the modified paths only: nothing when the status was Completed already
CheckoutSave(p) ==
  /\ pc[p] = "k_updated"
  /\ IF doc[p].booking.bookingStatus = "Completed"
     THEN /\ pc' = [pc EXCEPT ![p] = "k_saved"]
          /\ UNCHANGED << revision, rooms, bookings, doc, held, stale, conc, sink, res, requests, query, session >>
     ELSE IF BookingConflict(p, doc[p].id)
     THEN Throw(p, "k_catch")
     ELSE /\ pc' = [pc EXCEPT ![p] = "k_saved"]
          /\ doc' = [doc EXCEPT ![p].booking.bookingStatus = "Completed"]
          /\ held' = [held EXCEPT ![p].bookings = {doc[p].id}]
          /\ UNCHANGED << revision, rooms, bookings, stale, conc, sink, res, requests, query, session >>

\* a commit that makes the room updates visible and loses the update of the booking
CheckoutCommitRoomsOnly(p) ==
  /\ pc[p] = "k_saved"
  /\ pc' = [pc EXCEPT ![p] = "done"]
  /\ rooms' = [rn \in DOMAIN rooms |-> IF rn \in held[p].rooms THEN TRUE ELSE rooms[rn]]
  /\ stale' = [StaleAfter(p, held[p]) EXCEPT ![p] = NoDocs]
  /\ held' = [held EXCEPT ![p] = NoDocs]
  /\ res' = [res EXCEPT ![p] =
        [ status |-> 200, message |-> "Checkout successful", emailSent |-> FALSE,
          booking |-> doc[p].id, roomNumbers |-> RoomNumbersOf(doc[p].booking.selectedRooms) ]]
  /\ doc' = [doc EXCEPT ![p] = NoDoc]
  /\ session' = [session EXCEPT ![p] = "ended"]
  /\ UNCHANGED << revision, bookings, conc, sink, requests, query >>

\* the commit of a checkout that had set booking.bookingStatus = 'Cancelled'
CheckoutCommitCancels(p) ==
  /\ pc[p] = "k_saved"
  /\ pc' = [pc EXCEPT ![p] = "done"]
  /\ rooms' = [rn \in DOMAIN rooms |-> IF rn \in held[p].rooms THEN TRUE ELSE rooms[rn]]
  /\ bookings' = [i \in DOMAIN bookings |->
        IF i \in held[p].bookings
        THEN [bookings[i] EXCEPT !.bookingStatus = "Cancelled"]
        ELSE bookings[i]]
  /\ stale' = [StaleAfter(p, held[p]) EXCEPT ![p] = NoDocs]
  /\ held' = [held EXCEPT ![p] = NoDocs]
  /\ res' = [res EXCEPT ![p] =
        [ status |-> 200, message |-> "Checkout successful", emailSent |-> FALSE,
          booking |-> doc[p].id, roomNumbers |-> RoomNumbersOf(doc[p].booking.selectedRooms) ]]
  /\ doc' = [doc EXCEPT ![p] = NoDoc]
  /\ session' = [session EXCEPT ![p] = "ended"]
  /\ UNCHANGED << revision, conc, sink, requests, query >>

\* await session.commitTransaction(); res.json({ message, roomNumbers }); finally
CheckoutCommit(p) ==
  /\ pc[p] = "k_saved"
  /\ pc' = [pc EXCEPT ![p] = "done"]
  /\ rooms' = [rn \in DOMAIN rooms |-> IF rn \in held[p].rooms THEN TRUE ELSE rooms[rn]]
  /\ bookings' = [i \in DOMAIN bookings |->
        IF i \in held[p].bookings
        THEN [bookings[i] EXCEPT !.bookingStatus = "Completed"]
        ELSE bookings[i]]
  /\ stale' = [StaleAfter(p, held[p]) EXCEPT ![p] = NoDocs]
  /\ held' = [held EXCEPT ![p] = NoDocs]
  /\ res' = [res EXCEPT ![p] =
        [ status |-> 200, message |-> "Checkout successful", emailSent |-> FALSE,
          booking |-> doc[p].id, roomNumbers |-> RoomNumbersOf(doc[p].booking.selectedRooms) ]]
  /\ doc' = [doc EXCEPT ![p] = NoDoc]
  /\ session' = [session EXCEPT ![p] = "ended"]
  /\ UNCHANGED << revision, conc, sink, requests, query >>

\* catch (error) { await session.abortTransaction(); res.status(400).json({...}) }
CheckoutCatch(p) ==
  /\ pc[p] = "k_catch"
  /\ AbortAndAnswer(p, 400, "error")

\* the catch block of the checkout handler when its abortTransaction rejects
CheckoutCatchRejects(p) ==
  /\ pc[p] = "k_catch"
  /\ AbortRejects(p)

\* an awaited storage operation of the checkout handler rejects
RejectCheckout(p) ==
  /\ pc[p] \in {"k_try", "k_found", "k_updated", "k_saved"}
  /\ Throw(p, "k_catch")

(***************************************************************************)
(* PUT /api/bookings/:id/payment                                           *)
(***************************************************************************)
\* the handlers registered for the route, in the order of the app.put calls
PaymentRegistrations(rev) ==
  IF rev = "part_000" THEN << "findByIdAndUpdate" >>
  ELSE << "findByIdAndUpdate", "findById-check-save" >>

\* express runs the first matching handler; it answers and never calls next()
PaymentHandler(rev) == Head(PaymentRegistrations(rev))

\* the answer of the payment handler for booking id, and whether it writes
PaymentAnswer(rev, id) ==
  IF InvalidId(id)
  THEN [ status |-> 400, message |-> IF PaymentHandler(rev) = "findByIdAndUpdate"
                                     THEN "error" ELSE "Invalid booking ID", writes |-> FALSE ]
  ELSE IF id > Len(bookings)
  THEN [ status |-> 404, message |-> "Booking not found", writes |-> FALSE ]
  ELSE IF PaymentHandler(rev) # "findByIdAndUpdate" /\ bookings[id].paymentStatus = "Completed"
  THEN [ status |-> 400, message |-> "Payment already completed", writes |-> FALSE ]
  ELSE [ status |-> 200, message |-> "", writes |-> TRUE ]

\* findByIdAndUpdate with { paymentStatus: 'Completed', bookingStatus: 'Completed' }
CompletePaymentAndBooking(p, id) ==
  /\ Free(p)
  /\ requests < MaxRequests
  /\ requests' = requests + 1
  /\ PaymentAnswer(revision, id).writes => \A q \in Procs : id \notin held[q].bookings
  /\ pc' = [pc EXCEPT ![p] = "done"]
  /\ bookings' = IF PaymentAnswer(revision, id).writes
                 THEN [bookings EXCEPT ![id].paymentStatus = "Completed",
                                       ![id].bookingStatus = "Completed"]
                 ELSE bookings
  /\ stale' = IF PaymentAnswer(revision, id).writes
              THEN StaleAfter(p, [rooms |-> {}, bookings |-> {id}])
              ELSE stale
  /\ res' = [res EXCEPT ![p] =
        [ status |-> PaymentAnswer(revision, id).status,
          message |-> PaymentAnswer(revision, id).message, emailSent |-> FALSE,
          booking |-> IF PaymentAnswer(revision, id).writes THEN id ELSE 0,
          roomNumbers |-> << >> ]]
  /\ doc' = [doc EXCEPT ![p] = NoDoc]
  /\ conc' = [conc EXCEPT ![p] = {}]
  /\ sink' = [sink EXCEPT ![p] = 0]
  /\ session' = [session EXCEPT ![p] = "none"]
  /\ UNCHANGED << revision, rooms, held, query >>

\* Booking.findByIdAndUpdate(id, { paymentStatus: 'Completed' }, { new: true }): one
\* atomic write outside any transaction; it waits while a transaction holds the document
CompletePayment(p, id) ==
  /\ Free(p)
  /\ requests < MaxRequests
  /\ requests' = requests + 1
  /\ PaymentAnswer(revision, id).writes => \A q \in Procs : id \notin held[q].bookings
  /\ pc' = [pc EXCEPT ![p] = "done"]
  /\ bookings' = IF PaymentAnswer(revision, id).writes
                 THEN [bookings EXCEPT ![id].paymentStatus = "Completed"]
                 ELSE bookings
  /\ stale' = IF PaymentAnswer(revision, id).writes
              THEN StaleAfter(p, [rooms |-> {}, bookings |-> {id}])
              ELSE stale
  /\ res' = [res EXCEPT ![p] =
        [ status |-> PaymentAnswer(revision, id).status,
          message |-> PaymentAnswer(revision, id).message, emailSent |-> FALSE,
          booking |-> IF PaymentAnswer(revision, id).writes THEN id ELSE 0,
          roomNumbers |-> << >> ]]
  /\ doc' = [doc EXCEPT ![p] = NoDoc]
  /\ conc' = [conc EXCEPT ![p] = {}]
  /\ sink' = [sink EXCEPT ![p] = 0]
  /\ session' = [session EXCEPT ![p] = "none"]
  /\ UNCHANGED << revision, rooms, held, query >>


(***************************************************************************)
(* GET /api/rooms/available (part_000) and GET /api/rooms/available/:type  *)
(* (index.js)                                                              *)
(***************************************************************************)
\* the filter with $lte and $gte in place of $lt and $gt
OverlapsQueryClosed(b, checkIn, checkOut) ==
  /\ b.checkInDate <= checkOut
  /\ b.checkOutDate >= checkIn
  /\ b.bookingStatus # "Cancelled"

\* the filter of Booking.find: checkInDate < checkOut, checkOutDate > checkIn and
\* bookingStatus != 'Cancelled'
OverlapsQuery(b, checkIn, checkOut) ==
  /\ b.checkInDate < checkOut
  /\ b.checkOutDate > checkIn
  /\ b.bookingStatus # "Cancelled"

RECURSIVE FlatMapRoomNumbers(_)
\* overlappingBookings.flatMap(booking => booking.selectedRooms.map(room => room.roomNumber))
FlatMapRoomNumbers(found) ==
  IF found = << >> THEN << >>
  ELSE RoomNumbersOf(found[1].selectedRooms) \o FlatMapRoomNumbers(Tail(found))

Includes(list, x) == \E i \in 1..Len(list) : list[i] = x

\* Room.find(roomQuery): roomNumber $nin bookedRoomNumbers, and the category and type
\* filters when they are given
MatchesRoomQuery(room, booked, category, type) ==
  /\ ~Includes(booked, room.roomNumber)
  /\ category # Empty => room.roomCategory = category
  /\ type # Empty => room.type = type

\* the rooms GET /api/rooms/available answers with, for valid dates
AvailableRooms(rev, ledger, checkIn, checkOut, category, type) ==
  LET overlappingBookings == SelectSeq(ledger, LAMBDA b : OverlapsQuery(b, checkIn, checkOut))
      bookedRoomNumbers == FlatMapRoomNumbers(overlappingBookings)
      availableRooms == SelectSeq(SeedRooms(rev),
                          LAMBDA room : MatchesRoomQuery(room, bookedRoomNumbers, category, type))
  IN [i \in 1..Len(availableRooms) |-> availableRooms[i].roomNumber]

\* the whole answer of GET /api/rooms/available
AvailableAnswer(rev, ledger, q) ==
  IF q.checkIn = Empty \/ q.checkOut = Empty
  THEN [ status |-> 400, message |-> "Check-in and check-out dates are required",
         emailSent |-> FALSE, booking |-> 0, roomNumbers |-> << >> ]
  ELSE IF NewDate(q.checkIn) = InvalidDate \/ NewDate(q.checkOut) = InvalidDate
  THEN [ status |-> 500, message |-> "Error fetching available rooms",
         emailSent |-> FALSE, booking |-> 0, roomNumbers |-> << >> ]
  ELSE [ status |-> 200, message |-> "", emailSent |-> FALSE, booking |-> 0,
         roomNumbers |-> AvailableRooms(rev, ledger, NewDate(q.checkIn), NewDate(q.checkOut),
                                        q.category, q.type) ]

\* Room.find({ type }) without the isAvailable condition
AvailableByTypeAnyFlag(rev, flags, type) ==
  LET availableRooms == SelectSeq(SeedRooms(rev), LAMBDA room : room.type = type)
  IN [i \in 1..Len(availableRooms) |-> availableRooms[i].roomNumber]

\* Room.find({ type, isAvailable: true })
AvailableByType(rev, flags, type) ==
  LET availableRooms == SelectSeq(SeedRooms(rev),
                          LAMBDA room : room.type = type /\ flags[room.roomNumber])
  IN [i \in 1..Len(availableRooms) |-> availableRooms[i].roomNumber]

\* the whole answer of GET /api/rooms/available/:type
ByTypeAnswer(rev, flags, type) ==
  IF type \notin RoomTypes
  THEN [ status |-> 400, message |-> "Invalid room type",
         emailSent |-> FALSE, booking |-> 0, roomNumbers |-> << >> ]
  ELSE [ status |-> 200, message |-> "", emailSent |-> FALSE, booking |-> 0,
         roomNumbers |-> AvailableByType(rev, flags, type) ]

\* the query of the last availability request (kept with its answer)
Queries ==
  [ checkIn  : { DayTexts[i] : i \in 1..MaxDay } \cup {Empty, "tomorrow"},
    checkOut : { DayTexts[i] : i \in 1..MaxDay } \cup {Empty},
    category : {"Suite", Empty},
    type     : {"AC", Empty} ]

\* a read-only request answers in one step and leaves every collection alone
Answer(p, q, answer) ==
  /\ Free(p)
  /\ requests < MaxRequests
  /\ requests' = requests + 1
  /\ pc' = [pc EXCEPT ![p] = "done"]
  /\ res' = [res EXCEPT ![p] = answer]
  /\ query' = q
  /\ doc' = [doc EXCEPT ![p] = NoDoc]
  /\ conc' = [conc EXCEPT ![p] = {}]
  /\ sink' = [sink EXCEPT ![p] = 0]
  /\ session' = [session EXCEPT ![p] = "none"]
  /\ UNCHANGED << revision, rooms, bookings, held, stale >>

ListAvailableRooms(p, q) ==
  /\ revision = "part_000"
  /\ Answer(p, q, AvailableAnswer(revision, bookings, q))

ListAvailableByType(p, type) ==
  /\ revision = "index"
  /\ Answer(p, [checkIn |-> Empty, checkOut |-> Empty, category |-> Empty, type |-> type],
            ByTypeAnswer(revision, rooms, type))

(***************************************************************************)
(* GET /api/admin/bookings (index.js)                                      *)
(***************************************************************************)
\* the number of documents of .limit(limit * 1).skip((page - 1) * limit)
PageSize(count, page, limit) ==
  IF count - (page - 1) * limit <= 0 THEN 0
  ELSE IF count - (page - 1) * limit < limit THEN count - (page - 1) * limit
  ELSE limit

\* Booking.find().sort({ bookingDate: -1 }): the orders in which the query may
\* return the _ids of the ledger.  bookingDate is not unique and the sort names no
\* other key, so the database returns documents of equal bookingDate in any order,
\* chosen anew by every query.
SortedByBookingDate(ledger) ==
  { order \in [1..Len(ledger) -> 1..Len(ledger)] :
      /\ \A i, j \in 1..Len(ledger) : i # j => order[i] # order[j]
      /\ \A i, j \in 1..Len(ledger) :
           i < j => ledger[order[i]].bookingDate >= ledger[order[j]].bookingDate }

\* res.json({ bookings, totalPages: Math.ceil(count / limit), currentPage: page })
\* for one order of the sorted query; bookings holds the _ids of the page
BookingsAnswer(ledger, order, page, limit) ==
  [ status |-> 200, message |-> "", emailSent |-> FALSE, booking |-> 0, roomNumbers |-> << >>,
    bookings |-> [ i \in 1..PageSize(Len(ledger), page, limit) |-> order[(page - 1) * limit + i] ],
    limit |-> limit,
    totalPages |-> Ceil(Len(ledger), limit),
    currentPage |-> page ]

ListBookings(p, page, limit) ==
  /\ revision = "index"
  /\ \E order \in SortedByBookingDate(bookings) :
       Answer(p, NoQuery, BookingsAnswer(bookings, order, page, limit))

\* the pages a client asks for: << page, limit >>
Pages == { << 1, 1 >>, << 2, 1 >> }

\* the date-range queries sent while bookings are being made
StayQueries ==
  { [ checkIn |-> stay[1], checkOut |-> stay[2], category |-> Empty, type |-> Empty ] :
      stay \in { << DayTexts[1], DayTexts[2] >>, << Empty, DayTexts[2] >> } }

(***************************************************************************)
(* The server: requests arrive at any time and their steps interleave      *)
(***************************************************************************)
Next ==
  \E p \in Procs :
    \/ BeginCreate(p)
    \/ \E form \in Forms(revision) : CreateSave(p, form)
    \/ CreateUpdateRooms(p)
    \/ CreateCommit(p)
    \/ \E sent \in BOOLEAN : CreateSendEmails(p, sent)
    \/ CreateCatch(p)
    \/ CreateCatchRejects(p)
    \/ RejectCreate(p)
    \/ RejectCheckout(p)
    \/ BeginCheckout(p)
    \/ \E id \in BookingIds : CheckoutFind(p, id)
    \/ CheckoutUpdateRooms(p)
    \/ CheckoutSave(p)
    \/ CheckoutCommit(p)
    \/ CheckoutCatch(p)
    \/ CheckoutCatchRejects(p)
    \/ \E id \in BookingIds : CompletePayment(p, id)
    \/ \E q \in StayQueries : ListAvailableRooms(p, q)
    \/ ListAvailableByType(p, "AC")
    \/ \E pg \in Pages : ListBookings(p, pg[1], pg[2])

Spec == Init /\ [][Next]_vars

(***************************************************************************)
(* The availability queries over every small ledger: the ledger is drawn   *)
(* from the documents the Booking schema admits (any bookingStatus, any    *)
(* dates, rooms in the directory or not), the flags are arbitrary, and     *)
(* one client queries.                                                     *)
(***************************************************************************)
LedgerBooking(rev, selected, checkIn, checkOut, status) ==
  [ customerName  |-> "Asha",
    customerPhone |-> "9876543210",
    roomCategory  |-> IF rev = "part_000" THEN FirstRoomCategory(rev, selected) ELSE NoCategory,
    roomType      |-> "AC",
    selectedRooms |-> selected,
    checkInDate   |-> checkIn,
    checkOutDate  |-> checkOut,
    totalAmount   |-> TotalAmount(selected, Nights(checkIn, checkOut)),
    paymentMethod |-> "online",
    paymentStatus |-> "Pending",
    paymentProof  |-> Empty,
    bookingStatus |-> status,
    bookingDate   |-> 1 ]

LedgerBookings(rev) ==
  { LedgerBooking(rev, selected, NewDate(stay[1]), NewDate(stay[2]), status) :
      selected \in { << Entry(rev, SeedRooms(rev)[1].roomNumber) >>,
                     << Entry(rev, SeedRooms(rev)[2].roomNumber),
                        Entry(rev, SeedRooms(rev)[1].roomNumber) >>,
                     << Entry(rev, UnknownRoom) >> },
      stay \in { st \in StayInputs : st[1] # Empty /\ st[2] # Empty },
      status \in BookingStatuses }

Ledgers(rev) ==
  UNION { [1..n -> LedgerBookings(rev)] : n \in 0..MaxLedger }

InitQueries ==
  /\ revision \in Revisions
  /\ bookings \in Ledgers(revision)
  /\ rooms \in [RoomNumbers(revision) -> BOOLEAN]
  /\ revision = "part_000" =>
       rooms = [rn \in RoomNumbers(revision) |->
                  ~\E i \in 1..Len(bookings) :
                      /\ bookings[i].bookingStatus = "Confirmed"
                      /\ rn \in RoomSetOf(bookings[i].selectedRooms)]
  /\ pc = [p \in Procs |-> "idle"]
  /\ doc = [p \in Procs |-> NoDoc]
  /\ held = [p \in Procs |-> NoDocs]
  /\ stale = [p \in Procs |-> NoDocs]
  /\ conc = [p \in Procs |-> {}]
  /\ sink = [p \in Procs |-> 0]
  /\ res = [p \in Procs |-> NoResponse]
  /\ requests = MaxRequests - 1
  /\ query = NoQuery
  /\ session = [p \in Procs |-> "none"]

NextQueries ==
  \/ \E q \in Queries : ListAvailableRooms(Client, q)
  \/ \E type \in {"AC", "Non-AC", "General", "Deluxe"} : ListAvailableByType(Client, type)

SpecQueries == InitQueries /\ [][NextQueries]_vars

(***************************************************************************)
(* One createBooking request over every form: each field present or        *)
(* empty, lists of rooms of the directory or not, any order of the dates.  *)
(***************************************************************************)
WideDates == { DayTexts[i] : i \in 1..MaxDay } \cup { NoonTexts[1], Empty }

WideSelected(rev) ==
  { [json |-> FALSE, rooms |-> << >>], [json |-> TRUE, rooms |-> << >>] }
  \cup { [json |-> TRUE, rooms |-> << Entry(rev, rn) >>] : rn \in RoomNumbers(rev) \cup {UnknownRoom} }
  \cup { [json |-> TRUE, rooms |-> << Entry(rev, pair[1]), Entry(rev, pair[2]) >>] :
           pair \in { pr \in RoomNumbers(rev) \X RoomNumbers(rev) : pr[1] # pr[2] } }
  \cup { [json |-> TRUE, rooms |-> << [Entry(rev, rn) EXCEPT !.price = 1] >>] : rn \in RoomNumbers(rev) }

WideForms(rev) ==
  [ customerName  : {Empty, "Asha"},
    customerPhone : {Empty, "9876543210"},
    roomType      : {Empty, "AC", "Non-AC", "Deluxe"},
    selectedRooms : WideSelected(rev),
    checkInDate   : WideDates,
    checkOutDate  : WideDates,
    paymentMethod : PaymentMethods,
    paymentProof  : BOOLEAN ]

InitForms == Boot(MaxRequests - 1)

NextForms ==
  \/ BeginCreate(Client)
  \/ \E form \in WideForms(revision) : CreateSave(Client, form)
  \/ CreateUpdateRooms(Client)
  \/ CreateCommit(Client)
  \/ \E sent \in BOOLEAN : CreateSendEmails(Client, sent)
  \/ CreateCatch(Client)
  \/ CreateCatchRejects(Client)
  \/ RejectCreate(Client)

SpecForms == InitForms /\ [][NextForms]_vars

(***************************************************************************)
(* The admin list over an unchanging ledger: bookings made at any          *)
(* readings of the clock, stored in any order, and two page requests.      *)
(***************************************************************************)
PageLedgers(rev) ==
  UNION { [1..n -> { [LedgerBooking(rev, << Entry(rev, SeedRooms(rev)[1].roomNumber) >>,
                                    NewDate(DayTexts[1]), NewDate(DayTexts[2]), "Confirmed")
                        EXCEPT !.bookingDate = t] : t \in 1..MaxClock }] :
          n \in 0..(MaxLedger + 1) }

\* the pages and page sizes asked for
PageNumbers == 1..(MaxLedger + 1)
PageLimits == 1..MaxLedger

InitPages ==
  /\ revision = "index"
  /\ bookings \in PageLedgers(revision)
  /\ rooms = initializeRooms(revision)
  /\ pc = [p \in Procs |-> "idle"]
  /\ doc = [p \in Procs |-> NoDoc]
  /\ held = [p \in Procs |-> NoDocs]
  /\ stale = [p \in Procs |-> NoDocs]
  /\ conc = [p \in Procs |-> {}]
  /\ sink = [p \in Procs |-> 0]
  /\ res = [p \in Procs |-> NoResponse]
  /\ requests = MaxRequests - 2
  /\ query = NoQuery
  /\ session = [p \in Procs |-> "none"]

NextPages ==
  \E p \in Procs, page \in PageNumbers, limit \in PageLimits : ListBookings(p, page, limit)

SpecPages == InitPages /\ [][NextPages]_vars

(***************************************************************************)
(* Properties                                                              *)
(***************************************************************************)
\* two half-open ranges [a, b) and [c, d) overlap
HalfOpenOverlap(a, b, c, d) == a < d /\ c < b

InLedger(id) == id \in 1..Len(bookings)

\* the request in slot p is a createBooking whose transaction committed
Created(p) ==
  \/ pc[p] = "c_email"
  \/ pc[p] = "done" /\ res[p].status = 201

CreatedId(p) == IF pc[p] = "c_email" THEN doc[p].id ELSE res[p].booking

\* the request in slot p is a checkout that answered with success
CheckedOut(p) ==
  pc[p] = "done" /\ res[p].status = 200 /\ res[p].message = "Checkout successful"

\* C1: no two distinct bookings that are not Cancelled reference the same room
\* with date ranges that overlap under the half-open rule.
C1_NoDoubleBooking ==
  \A i, j \in 1..Len(bookings) :
    ( /\ i # j
      /\ bookings[i].bookingStatus # "Cancelled"
      /\ bookings[j].bookingStatus # "Cancelled"
      /\ RoomSetOf(bookings[i].selectedRooms) \cap RoomSetOf(bookings[j].selectedRooms) # {} )
    => ~HalfOpenOverlap(bookings[i].checkInDate, bookings[i].checkOutDate,
                        bookings[j].checkInDate, bookings[j].checkOutDate)

\* C2: of two createBooking requests whose transactions were in progress at the
\* same time, for the same single room and the same date range, at most one commits.
C2_OneOfTwoConcurrentWins ==
  \A p, q \in Procs :
    ( /\ p # q
      /\ q \in conc[p]
      /\ Created(p)
      /\ Created(q) )
    => ~( /\ Len(bookings[CreatedId(p)].selectedRooms) = 1
          /\ bookings[CreatedId(p)].selectedRooms = bookings[CreatedId(q)].selectedRooms
          /\ bookings[CreatedId(p)].checkInDate = bookings[CreatedId(q)].checkInDate
          /\ bookings[CreatedId(p)].checkOutDate = bookings[CreatedId(q)].checkOutDate )

\* C3: createBooking is all-or-nothing.  A step adds a booking to the ledger only
\* as the commit of a createBooking, and that same step sets isAvailable = false on
\* every selected room; every other step of a createBooking (the save, the room
\* update, a failure of either, the abort and the 400 answer) changes neither the
\* ledger nor any room.
C3_CreateAllOrNothing ==
  [][ /\ Len(bookings') # Len(bookings) =>
           \E p \in Procs :
             /\ pc[p] = "c_updated"
             /\ pc'[p] = "c_email"
             /\ bookings' = Append(bookings, doc[p].booking)
             /\ \A rn \in DOMAIN rooms :
                  rooms'[rn] = IF rn \in RoomSetOf(doc[p].booking.selectedRooms)
                               THEN FALSE ELSE rooms[rn]
      /\ \A p \in Procs :
           ( /\ pc[p] \in {"c_try", "c_saved", "c_updated", "c_catch"}
             /\ pc'[p] # pc[p]
             /\ pc'[p] # "c_email" )
           => /\ bookings' = bookings
              /\ rooms' = rooms
              /\ pc'[p] \in {"c_saved", "c_updated", "c_catch", "done", "unanswered"}
              /\ pc'[p] = "done" => res'[p].status = 400
    ]_vars

\* C3 witness: a createBooking failed after its insert and before its room update,
\* and neither the booking nor a flag change is there.
C3_Witness ==
  \E p \in Procs :
    /\ pc[p] = "c_catch"
    /\ doc[p].booking # NoBooking
    /\ held[p].rooms = {}
    /\ bookings = << >>
    /\ \A rn \in DOMAIN rooms : rooms[rn]

\* the rooms a query for [checkIn, checkOut) with the filters must return: the rooms
\* of the directory that match the filters and that no booking other than a
\* Cancelled one, overlapping the range, references
FreeRooms(checkIn, checkOut, category, type) ==
  { rn \in RoomNumbers(revision) :
      /\ category # Empty => RoomRecord(revision, rn).roomCategory = category
      /\ type # Empty => RoomRecord(revision, rn).type = type
      /\ ~\E i \in 1..Len(bookings) :
            /\ bookings[i].bookingStatus # "Cancelled"
            /\ rn \in RoomSetOf(bookings[i].selectedRooms)
            /\ HalfOpenOverlap(bookings[i].checkInDate, bookings[i].checkOutDate,
                               checkIn, checkOut) }

DateQueryAnswered(p) ==
  /\ revision = "part_000"
  /\ pc[p] = "done"
  /\ res[p].status = 200
  /\ query.checkIn # Empty

\* C4: the answer of listAvailableRooms for a range and filters is exactly the set
\* of rooms of the directory that match the filters and are referenced by no
\* non-Cancelled booking overlapping the range (half-open), each room once.
C4_AvailableRoomsExact ==
  \A p \in Procs :
    DateQueryAnswered(p) =>
      /\ RoomSetOf([i \in 1..Len(res[p].roomNumbers) |-> [roomNumber |-> res[p].roomNumbers[i]]])
           = FreeRooms(NewDate(query.checkIn), NewDate(query.checkOut), query.category, query.type)
      /\ \A i, j \in 1..Len(res[p].roomNumbers) :
           res[p].roomNumbers[i] = res[p].roomNumbers[j] => i = j

\* C4 witness: a query answered with a room held by a booking that ends on the
\* query's check-in day, while another booking excludes another room.
C4_Witness ==
  \E p \in Procs :
    /\ DateQueryAnswered(p)
    /\ \E i \in 1..Len(bookings) :
         /\ bookings[i].bookingStatus = "Confirmed"
         /\ bookings[i].checkOutDate = NewDate(query.checkIn)
         /\ \E k \in 1..Len(res[p].roomNumbers) :
              res[p].roomNumbers[k] \in RoomSetOf(bookings[i].selectedRooms)
    /\ Len(res[p].roomNumbers) < Cardinality(RoomNumbers(revision))
    /\ query.category = Empty
    /\ query.type = Empty

\* C5: a completePayment on a booking whose payment is Completed already is
\* rejected as already completed.
C5_SecondPaymentRejected ==
  [][ \A p \in Procs, id \in BookingIds :
        ( /\ InLedger(id)
          /\ bookings[id].paymentStatus = "Completed"
          /\ CompletePayment(p, id) )
        => /\ res'[p].status # 200
           /\ res'[p].message = "Payment already completed"
    ]_vars

\* C6: checkout is atomic.  The commit of a checkout answers 200 and leaves every
\* room of the booking with isAvailable = true and the booking Completed; every
\* other step of a checkout changes neither a room nor a booking; and no other
\* step sets a bookingStatus or raises a flag.
C6_CheckoutAtomic ==
  [][ /\ \A p \in Procs :
           (pc[p] = "k_saved" /\ pc'[p] = "done") =>
              /\ res'[p].status = 200
              /\ bookings'[doc[p].id].bookingStatus = "Completed"
              /\ \A rn \in RoomSetOf(bookings[doc[p].id].selectedRooms) \cap DOMAIN rooms :
                   rooms'[rn]
      /\ \A p \in Procs :
           ( /\ pc[p] \in {"k_try", "k_found", "k_updated", "k_saved", "k_catch"}
             /\ pc'[p] # pc[p]
             /\ ~(pc[p] = "k_saved" /\ pc'[p] = "done") )
           => /\ bookings' = bookings
              /\ rooms' = rooms
              /\ pc'[p] = "done" => res'[p].status \in {400, 404}
      /\ ( \/ \E i \in 1..Len(bookings) : bookings'[i].bookingStatus # bookings[i].bookingStatus
           \/ \E rn \in DOMAIN rooms : rooms'[rn] /\ ~rooms[rn] )
         => \E p \in Procs : pc[p] = "k_saved" /\ pc'[p] = "done"
    ]_vars

\* C6 witness: a checkout has succeeded on a booking that held a room.
C6_Witness ==
  \E p \in Procs :
    /\ CheckedOut(p)
    /\ InLedger(res[p].booking)
    /\ bookings[res[p].booking].bookingStatus = "Completed"
    /\ res[p].roomNumbers # << >>
    /\ \A k \in 1..Len(res[p].roomNumbers) : rooms[res[p].roomNumbers[k]]

\* C7: after a successful checkout of a booking B that is the only booking
\* referencing its rooms, the checkout answered exactly B's room numbers, every one
\* of those rooms has isAvailable = true, and the availability query returns each of
\* them for any date range, the ranges that overlap B's own included.
C7_CheckedOutRoomsListedForAnyRange ==
  \A p \in Procs :
    ( /\ CheckedOut(p)
      /\ InLedger(res[p].booking)
      /\ \A j \in 1..Len(bookings) :
           j # res[p].booking =>
             RoomSetOf(bookings[j].selectedRooms)
               \cap RoomSetOf(bookings[res[p].booking].selectedRooms) = {} )
    => /\ res[p].roomNumbers = RoomNumbersOf(bookings[res[p].booking].selectedRooms)
       /\ \A rn \in RoomSetOf(bookings[res[p].booking].selectedRooms) :
            /\ rooms[rn]
            /\ revision = "index" =>
                 Includes(AvailableByType(revision, rooms, RoomRecord(revision, rn).type), rn)
            /\ revision = "part_000" =>
                 \A i, j \in 1..Len(DayTexts) :
                   i < j =>
                     Includes(AvailableRooms(revision, bookings, NewDate(DayTexts[i]),
                                             NewDate(DayTexts[j]), Empty, Empty), rn)

\* C8: once the transaction of a createBooking has committed, the request answers
\* 201 with the persisted booking whether the notification succeeds or fails, and
\* that step changes neither the ledger nor a room flag; the answers of the two
\* cases differ in emailSent only.
C8_EmailFailureKeepsBooking ==
  [][ \A p \in Procs :
        (pc[p] = "c_email" /\ pc'[p] # "c_email") =>
          /\ pc'[p] = "done"
          /\ InLedger(doc[p].id)
          /\ bookings' = bookings
          /\ rooms' = rooms
          /\ res'[p] = [ status |-> 201, message |-> "Booking created successfully",
                         emailSent |-> res'[p].emailSent, booking |-> doc[p].id,
                         roomNumbers |-> << >> ]
    ]_vars

\* C8 witness: a createBooking has answered 201 with emailSent = false, and its
\* booking and the flags of its rooms are committed.
C8_Witness ==
  \E p \in Procs :
    /\ pc[p] = "done"
    /\ res[p].status = 201
    /\ ~res[p].emailSent
    /\ InLedger(res[p].booking)
    /\ bookings[res[p].booking].bookingStatus = "Confirmed"
    /\ \A rn \in RoomSetOf(bookings[res[p].booking].selectedRooms) : ~rooms[rn]

\* C9: a createBooking calls the notification sink once when it succeeds, not before
\* its transaction has committed, and never when its transaction aborted or failed.
C9_SinkOnceAfterCommit ==
  \A p \in Procs :
    /\ sink[p] <= 1
    /\ (pc[p] = "done" /\ res[p].status = 201) => sink[p] = 1
    /\ pc[p] \in {"c_try", "c_saved", "c_updated", "c_catch", "c_email"} => sink[p] = 0
    /\ (pc[p] = "done" /\ res[p].status # 201) => sink[p] = 0
    /\ sink[p] = 1 => InLedger(res[p].booking)

\* C9 witness: one createBooking has succeeded and called the sink, another has
\* failed after its insert and has not.
C9_Witness ==
  \E p, q \in Procs :
    /\ pc[p] = "done"
    /\ res[p].status = 201
    /\ sink[p] = 1
    /\ pc[q] = "done"
    /\ res[q].message = "Failed to create booking"
    /\ sink[q] = 0

\* C10: createBooking creates no booking and changes no room flag when the guest
\* name, the phone, the room type, checkIn or checkOut is missing or empty, or the
\* room list is missing or empty: the ledger never holds such a booking, and a
\* request that answered without a ledger booking left every flag alone.
C10_RequiredFieldsEnforced ==
  /\ \A i \in 1..Len(bookings) :
       /\ bookings[i].customerName # Empty
       /\ bookings[i].customerPhone # Empty
       /\ bookings[i].roomType # Empty
       /\ bookings[i].checkInDate # InvalidDate
       /\ bookings[i].checkOutDate # InvalidDate
       /\ bookings[i].selectedRooms # << >>
  /\ bookings = << >> => \A rn \in DOMAIN rooms : rooms[rn]

\* C11: every booking of the ledger has checkInDate < checkOutDate: a createBooking
\* with checkIn at or after checkOut stores nothing.
C11_CheckInBeforeCheckOut ==
  \A i \in 1..Len(bookings) : bookings[i].checkInDate < bookings[i].checkOutDate

\* C12: every room a stored booking references exists in the Room Directory and
\* has the type, and the category, recorded on the booking.
C12_SelectedRoomsExistAndMatch ==
  \A i \in 1..Len(bookings) :
    \A rn \in RoomSetOf(bookings[i].selectedRooms) :
      /\ rn \in RoomNumbers(revision)
      /\ RoomRecord(revision, rn).type = bookings[i].roomType
      /\ revision = "part_000" =>
           RoomRecord(revision, rn).roomCategory = bookings[i].roomCategory

\* the number of nights of a stored booking: the least whole number of days that
\* covers checkOutDate - checkInDate
NightsOf(b) ==
  CHOOSE n \in -(2 * Len(DayTexts))..(2 * Len(DayTexts)) :
    /\ n * MsPerDay >= b.checkOutDate - b.checkInDate
    /\ (n - 1) * MsPerDay < b.checkOutDate - b.checkInDate

\* C13: every stored booking has totalAmount = nights * (sum of the prices of its
\* selectedRooms) with nights = ceil of the days between checkIn and checkOut, nights
\* is at least 1, and totalAmount is positive when every price is.
C13_TotalAmountFromNights ==
  \A i \in 1..Len(bookings) :
    /\ bookings[i].totalAmount = NightsOf(bookings[i]) * SumOver(bookings[i].selectedRooms, 1)
    /\ NightsOf(bookings[i]) >= 1
    /\ (\A k \in 1..Len(bookings[i].selectedRooms) : bookings[i].selectedRooms[k].price > 0)
         => bookings[i].totalAmount > 0

\* C14: every booking enters the ledger with bookingStatus = Confirmed and
\* paymentStatus = Pending, whatever the payment method and whether or not a
\* payment proof was uploaded.
C14_CreatedConfirmedPending ==
  [][ Len(bookings') > Len(bookings) =>
        /\ bookings'[Len(bookings')].bookingStatus = "Confirmed"
        /\ bookings'[Len(bookings')].paymentStatus = "Pending"
    ]_vars

\* C14 witness: a booking paid online with a payment proof has been created, and it
\* is Confirmed and Pending.
C14_Witness ==
  \E i \in 1..Len(bookings) :
    /\ bookings[i].paymentMethod = "online"
    /\ bookings[i].paymentProof = UploadPath
    /\ bookings[i].bookingStatus = "Confirmed"
    /\ bookings[i].paymentStatus = "Pending"

\* C15: paymentStatus is monotonic: a booking whose paymentStatus is Completed stays
\* in the ledger with paymentStatus Completed after every step.
C15_PaymentStatusMonotonic ==
  [][ \A i \in 1..Len(bookings) :
        bookings[i].paymentStatus = "Completed" =>
          /\ i \in 1..Len(bookings')
          /\ bookings'[i].paymentStatus = "Completed"
    ]_vars

\* C15 witness: a checkout has committed on a booking whose payment was completed
\* before, and the payment is still Completed.
C15_Witness ==
  \E p \in Procs :
    /\ CheckedOut(p)
    /\ InLedger(res[p].booking)
    /\ bookings[res[p].booking].paymentStatus = "Completed"
    /\ bookings[res[p].booking].bookingStatus = "Completed"

\* C16: a stored booking never changes except in paymentStatus and bookingStatus; a
\* step that changes its paymentStatus (completePayment) changes nothing else of it,
\* and a step that changes its bookingStatus (checkout) changes nothing else of it.
C16_BookingFieldsImmutable ==
  [][ \A i \in 1..Len(bookings) :
        /\ i \in 1..Len(bookings')
        /\ bookings'[i] = [bookings[i] EXCEPT !.paymentStatus = bookings'[i].paymentStatus,
                                              !.bookingStatus = bookings'[i].bookingStatus]
        /\ bookings'[i].paymentStatus # bookings[i].paymentStatus =>
             bookings'[i].bookingStatus = bookings[i].bookingStatus
        /\ bookings'[i].bookingStatus # bookings[i].bookingStatus =>
             bookings'[i].paymentStatus = bookings[i].paymentStatus
    ]_vars

\* C16 witness: a booking has been paid and checked out, and it still holds the
\* guest, the rooms, the dates and the amount it was created with.
C16_Witness ==
  \E i \in 1..Len(bookings) :
    /\ bookings[i].paymentStatus = "Completed"
    /\ bookings[i].bookingStatus = "Completed"
    /\ bookings[i].customerName = "Asha"
    /\ Len(bookings[i].selectedRooms) = 2
    /\ bookings[i].checkInDate < bookings[i].checkOutDate
    /\ bookings[i].totalAmount = NightsOf(bookings[i]) * SumOver(bookings[i].selectedRooms, 1)

\* slot p commits a createBooking in this step
CreateCommits(p) == pc[p] = "c_updated" /\ pc'[p] = "c_email"

\* slot p commits a checkout in this step
CheckoutCommits(p) == pc[p] = "k_saved" /\ pc'[p] = "done" /\ res'[p].status = 200

\* C17: the Room Directory keeps its rooms and their fields; isAvailable of a room
\* becomes false only in the commit of a createBooking that selects the room, and
\* true only in the commit of a checkout of a booking that references it; every
\* other step (completePayment, the queries, the steps of failed operations) leaves
\* every room unchanged.
C17_RoomsChangeOnlyByCommit ==
  [][ /\ revision' = revision
      /\ DOMAIN rooms' = RoomNumbers(revision)
      /\ \A rn \in DOMAIN rooms :
           /\ (rooms[rn] /\ ~rooms'[rn]) =>
                \E p \in Procs :
                  /\ CreateCommits(p)
                  /\ rn \in RoomSetOf(doc[p].booking.selectedRooms)
                  /\ bookings' = Append(bookings, doc[p].booking)
           /\ (~rooms[rn] /\ rooms'[rn]) =>
                \E p \in Procs :
                  /\ CheckoutCommits(p)
                  /\ rn \in RoomSetOf(bookings[doc[p].id].selectedRooms)
      /\ (\A p \in Procs : ~CreateCommits(p) /\ ~CheckoutCommits(p)) => rooms' = rooms
    ]_vars

\* C17 witness: a checkout has raised the flag of a room and a createBooking has
\* lowered the flag of another.
C17_Witness ==
  \E p \in Procs :
    /\ CheckedOut(p)
    /\ \E k \in 1..Len(res[p].roomNumbers) : rooms[res[p].roomNumbers[k]]
    /\ \E i \in 1..Len(bookings) :
         /\ bookings[i].bookingStatus = "Confirmed"
         /\ \E rn \in RoomSetOf(bookings[i].selectedRooms) : ~rooms[rn]

\* C18: a room that a booking with bookingStatus = Confirmed references has
\* isAvailable = false.
C18_ConfirmedRoomsUnavailable ==
  \A i \in 1..Len(bookings) :
    bookings[i].bookingStatus = "Confirmed" =>
      \A rn \in RoomSetOf(bookings[i].selectedRooms) \cap DOMAIN rooms : ~rooms[rn]

C20_CheckoutCallerTriggered ==
  [][ /\ \A p \in Procs, id \in BookingIds :
           (InLedger(id) /\ CheckoutFind(p, id)) =>
              /\ pc'[p] = "k_found"
              /\ doc'[p] = [id |-> id, booking |-> bookings[id]]
      /\ \A p \in Procs :
           (pc[p] \in {"k_found", "k_updated"} /\ pc'[p] # pc[p]) =>
              \/ pc'[p] \in {"k_updated", "k_saved"}
              \/ /\ pc'[p] = "k_catch"
                 /\ \/ RejectCheckout(p)
                    \/ \E rn \in RoomSetOf(doc[p].booking.selectedRooms) : RoomConflict(p, rn)
                    \/ BookingConflict(p, doc[p].id)
      /\ \A p \in Procs :
           (pc[p] = "k_saved" /\ pc'[p] # pc[p]) =>
              \/ CheckoutCommits(p) /\ res'[p].message = "Checkout successful"
              \/ RejectCheckout(p)
      /\ ( \/ \E i \in 1..Len(bookings) : bookings'[i].bookingStatus # bookings[i].bookingStatus
           \/ \E rn \in DOMAIN rooms : rooms'[rn] # rooms[rn] )
         => \E p \in Procs : CreateCommits(p) \/ CheckoutCommits(p)
    ]_vars

\* C20 witness: the booking of the later stay has been checked out while the
\* booking of the earlier stay is still Confirmed.
C20_Witness ==
  \E p \in Procs :
    /\ CheckedOut(p)
    /\ InLedger(res[p].booking)
    /\ bookings[res[p].booking].bookingStatus = "Completed"
    /\ \E j \in 1..Len(bookings) :
         /\ bookings[j].bookingStatus = "Confirmed"
         /\ bookings[j].checkOutDate <= bookings[res[p].booking].checkInDate


\* positions of a createBooking or checkout handler between its startTransaction
\* and the end of its finally block
HandlerPcs == TxnPcs \cup {"c_email"}

\* C21: every session started by createBooking or checkout is ended on every exit
\* path.  A slot in which no handler runs (idle, answered, or left unanswered) has
\* no open transaction, no session that is still open and no staged write; and the
\* step with which a createBooking or checkout handler terminates, whether it
\* answers 201, 200, 400 or 404 or answers nothing, leaves its session ended.
C21_SessionEndedOnEveryExit ==
  [][ \A p \in Procs :
        /\ pc[p] \notin HandlerPcs =>
             /\ session[p] \in {"none", "ended"}
             /\ held[p] = NoDocs
        /\ (pc[p] \in HandlerPcs /\ pc'[p] \notin HandlerPcs) =>
             /\ session'[p] = "ended"
             /\ held'[p] = NoDocs ]_vars

\* a checkout answered 404 and a request whose abort rejected, both with their
\* sessions ended, next to a committed booking
C21_Witness ==
  /\ Len(bookings) > 0
  /\ \E p, q \in Procs :
       /\ pc[p] = "done" /\ res[p].status = 404 /\ session[p] = "ended"
       /\ pc[q] = "unanswered" /\ session[q] = "ended"


\* C22: every createBooking and checkout request receives a response, on every
\* path, a failure of the abort in the error handler included: a slot whose handler
\* has terminated holds the response that the handler sent, so no handler ends
\* having answered nothing.
C22_EveryRequestAnswered ==
  \A p \in Procs :
    pc[p] \notin (HandlerPcs \cup {"idle"}) =>
      /\ pc[p] = "done"
      /\ res[p].status # 0


\* C23: the price stored in each selectedRooms entry of a booking is the nightly
\* price the Room Directory holds for that room (the directory's prices never change
\* after the rooms are seeded), not a number chosen by the caller.
C23_PriceFromDirectory ==
  \A i \in 1..Len(bookings) :
    \A k \in 1..Len(bookings[i].selectedRooms) :
      bookings[i].selectedRooms[k].roomNumber \in RoomNumbers(revision) =>
        bookings[i].selectedRooms[k].price =
          RoomRecord(revision, bookings[i].selectedRooms[k].roomNumber).price


\* C24: checkout(B) sets isAvailable = true on every room of B unconditionally.  The
\* commit of a checkout leaves every room of its booking that the directory holds
\* flagged available, whether or not another Confirmed booking references the room
\* and whether B was Confirmed or already Completed.
C24_CheckoutRaisesEveryFlag ==
  [][ \A p \in Procs :
        CheckoutCommits(p) =>
          \A rn \in RoomSetOf(doc[p].booking.selectedRooms) \cap DOMAIN rooms : rooms'[rn]
    ]_vars

\* a checkout of booking B has succeeded while a different booking that is still
\* Confirmed references a room of B, and that room is flagged available
C24_Witness ==
  \E p \in Procs :
    /\ CheckedOut(p)
    /\ res[p].roomNumbers # << >>
    /\ \E j \in 1..Len(bookings), k \in 1..Len(res[p].roomNumbers) :
         /\ j # res[p].booking
         /\ bookings[j].bookingStatus = "Confirmed"
         /\ res[p].roomNumbers[k] \in RoomSetOf(bookings[j].selectedRooms)
         /\ res[p].roomNumbers[k] \in DOMAIN rooms
         /\ rooms[res[p].roomNumbers[k]]


\* C25: the roomCategory recorded on a booking (part_000) is the category the Room
\* Directory holds for the first entry of selectedRooms, whatever the categories of
\* the other entries, and it is Standard when the directory has no room with the
\* first entry's number.
C25_CategoryOfFirstRoom ==
  revision = "part_000" =>
    \A i \in 1..Len(bookings) :
      LET first == bookings[i].selectedRooms[1].roomNumber
      IN /\ \A k \in 1..Len(SeedRoomsPart000) :
              SeedRoomsPart000[k].roomNumber = first =>
                bookings[i].roomCategory = SeedRoomsPart000[k].roomCategory
         /\ (\A k \in 1..Len(SeedRoomsPart000) : SeedRoomsPart000[k].roomNumber # first) =>
              bookings[i].roomCategory = "Standard"

\* a stored booking of two rooms of different categories carries the category of
\* its first room, which is not the category of its second room
C25_Witness ==
  /\ revision = "part_000"
  /\ \E i \in 1..Len(bookings) :
       /\ Len(bookings[i].selectedRooms) = 2
       /\ bookings[i].selectedRooms[1].roomNumber = "Suite Non-AC 1"
       /\ bookings[i].selectedRooms[2].roomNumber = "101"
       /\ bookings[i].roomCategory = "Suite"
       /\ RoomRecord(revision, "101").roomCategory # bookings[i].roomCategory


\* C26: on an unchanging ledger listBookings(page, limit) returns the bookings at
\* positions (page-1)*limit+1 .. page*limit of the ledger ordered newest bookingDate
\* first, with totalPages = ceil(count/limit); a page beyond totalPages is empty;
\* the pages 1..totalPages together hold every booking exactly once (two different
\* pages of one page size share no booking, and the two pages of a ledger of two
\* pages hold all of it); and listBookings changes no booking and no room.
C26_ListBookingsPages ==
  [][ /\ bookings' = bookings
      /\ rooms' = rooms
      /\ \A p \in Procs :
           (pc'[p] = "done" /\ "currentPage" \in DOMAIN res'[p]) =>
             LET r == res'[p]
                 first == (r.currentPage - 1) * r.limit + 1
                 last == r.currentPage * r.limit
             IN /\ r.totalPages * r.limit >= Len(bookings)
                /\ (r.totalPages - 1) * r.limit < Len(bookings)
                /\ Len(r.bookings) =
                     Cardinality({ pos \in first..last : pos <= Len(bookings) })
                /\ r.currentPage > r.totalPages => r.bookings = << >>
                /\ \A i \in 1..Len(r.bookings) :
                     /\ r.bookings[i] \in 1..Len(bookings)
                     /\ Cardinality({ j \in 1..Len(bookings) :
                                        bookings[j].bookingDate > bookings[r.bookings[i]].bookingDate })
                          <= first + i - 2
                     /\ Cardinality({ j \in 1..Len(bookings) :
                                        /\ j # r.bookings[i]
                                        /\ bookings[j].bookingDate >= bookings[r.bookings[i]].bookingDate })
                          >= first + i - 2
                /\ \A q \in Procs :
                     ( /\ q # p
                       /\ pc'[q] = "done" /\ "currentPage" \in DOMAIN res'[q]
                       /\ res'[q].limit = r.limit
                       /\ res'[q].currentPage # r.currentPage ) =>
                         /\ \A i \in 1..Len(r.bookings), k \in 1..Len(res'[q].bookings) :
                              r.bookings[i] # res'[q].bookings[k]
                         /\ r.totalPages = 2 /\ r.currentPage + res'[q].currentPage = 3 =>
                              \A id \in 1..Len(bookings) :
                                \/ \E i \in 1..Len(r.bookings) : r.bookings[i] = id
                                \/ \E k \in 1..Len(res'[q].bookings) : res'[q].bookings[k] = id
    ]_vars


\* C27: the flag-only availability query (GET /api/rooms/available/:type of
\* index.js: a room type and no date range) answers exactly the rooms of that type
\* whose isAvailable flag is true, each once, whatever the dates and statuses of the
\* bookings; a type that is not AC, Non-AC or General is rejected with 400 and no
\* room list; the query changes no room and no booking.
C27_FlagOnlyQueryExact ==
  [][ \A type \in {"AC", "Non-AC", "General", "Deluxe"} :
        ListAvailableByType(Client, type) =>
          /\ rooms' = rooms
          /\ bookings' = bookings
          /\ type \in {"AC", "Non-AC", "General"} =>
               /\ res'[Client].status = 200
               /\ { res'[Client].roomNumbers[i] : i \in 1..Len(res'[Client].roomNumbers) }
                    = { rn \in RoomNumbers(revision) :
                          RoomRecord(revision, rn).type = type /\ rooms[rn] }
               /\ \A i, j \in 1..Len(res'[Client].roomNumbers) :
                    res'[Client].roomNumbers[i] = res'[Client].roomNumbers[j] => i = j
          /\ type \notin {"AC", "Non-AC", "General"} =>
               /\ res'[Client].status = 400
               /\ res'[Client].roomNumbers = << >>
    ]_vars

\* the flag-only query for AC has answered room AC-1, whose flag is raised although
\* a Confirmed booking references it, while the flag of room NAC-1 is lowered
C27_Witness ==
  /\ revision = "index"
  /\ pc[Client] = "done"
  /\ res[Client].status = 200
  /\ query.checkIn = Empty /\ query.type = "AC"
  /\ res[Client].roomNumbers = << "AC-1" >>
  /\ ~rooms["NAC-1"]
  /\ \E i \in 1..Len(bookings) :
       /\ bookings[i].bookingStatus = "Confirmed"
       /\ "AC-1" \in RoomSetOf(bookings[i].selectedRooms)


\* C28: listAvailableRooms rejects a query whose checkIn is equal to or later than
\* its checkOut: such a query is not answered 200 and gets no room list.
C28_ReversedRangeRejected ==
  \A p \in Procs :
    ( /\ revision = "part_000"
      /\ pc[p] = "done"
      /\ query.checkIn # Empty /\ query.checkOut # Empty
      /\ NewDate(query.checkIn) # InvalidDate /\ NewDate(query.checkOut) # InvalidDate
      /\ NewDate(query.checkIn) >= NewDate(query.checkOut) )
    => /\ res[p].status # 200
       /\ res[p].roomNumbers = << >>


\* C29: bookingStatus follows only Confirmed -> Completed, by the commit of a
\* checkout of that booking, and Completed -> Completed.  No step of createBooking,
\* completePayment or checkout leaves a booking Cancelled, a booking enters the
\* ledger Confirmed, and a Completed booking stays Completed.
C29_BookingStatusTransitions ==
  [][ /\ \A i \in 1..Len(bookings') : bookings'[i].bookingStatus # "Cancelled"
      /\ \A i \in 1..Len(bookings') :
           i > Len(bookings) => bookings'[i].bookingStatus = "Confirmed"
      /\ \A i \in 1..Len(bookings) :
           /\ i \in 1..Len(bookings')
           /\ bookings[i].bookingStatus = "Completed" => bookings'[i].bookingStatus = "Completed"
           /\ bookings'[i].bookingStatus # bookings[i].bookingStatus =>
                /\ bookings[i].bookingStatus = "Confirmed"
                /\ bookings'[i].bookingStatus = "Completed"
                /\ \E p \in Procs : CheckoutCommits(p) /\ doc[p].id = i
    ]_vars

\* both transitions have happened: a booking was checked out twice and is
\* Completed, and its payment was never made
C29_Witness ==
  \E p, q \in Procs :
    /\ p # q
    /\ CheckedOut(p) /\ CheckedOut(q)
    /\ res[p].booking = res[q].booking
    /\ InLedger(res[p].booking)
    /\ bookings[res[p].booking].bookingStatus = "Completed"
    /\ bookings[res[p].booking].paymentStatus = "Pending"


\* no createBooking or checkout handler other than the one of slot p is running
Alone(p) == \A q \in Procs : q # p => pc[q] \notin HandlerPcs

\* C30: checkout is idempotent on state.  A checkout of a booking that an earlier
\* checkout left Completed, with its rooms flagged available, and with no other
\* operation in progress, is not refused: it finds the booking; having found it
\* Completed, its room update and its save meet no conflict; and its commit answers
\* 200 with the room numbers of the booking and leaves every room and every booking
\* as the first checkout left them.
C30_CheckoutIdempotent ==
  [][ \A p \in Procs :
        /\ \A id \in BookingIds :
             ( /\ InLedger(id)
               /\ bookings[id].bookingStatus = "Completed"
               /\ CheckoutFind(p, id) )
             => /\ pc'[p] = "k_found"
                /\ doc'[p].id = id
        /\ ( /\ Alone(p)
             /\ pc[p] \in {"k_found", "k_updated"}
             /\ doc[p].booking.bookingStatus = "Completed"
             /\ CheckoutUpdateRooms(p) \/ CheckoutSave(p) )
           => pc'[p] \in {"k_updated", "k_saved"}
        /\ ( /\ pc[p] = "k_saved"
             /\ bookings[doc[p].id].bookingStatus = "Completed"
             /\ \A rn \in RoomSetOf(bookings[doc[p].id].selectedRooms) \cap DOMAIN rooms : rooms[rn]
             /\ CheckoutCommit(p) )
           => /\ res'[p].status = 200
              /\ res'[p].roomNumbers = RoomNumbersOf(bookings[doc[p].id].selectedRooms)
              /\ rooms' = rooms
              /\ bookings' = bookings
    ]_vars

\* the only booking of the ledger was checked out twice, one call after the other:
\* both calls answered 200 with the same room numbers, the booking is Completed and
\* its rooms are flagged available
C30_Witness ==
  /\ Len(bookings) = 1
  /\ requests = 3
  /\ \E p, q \in Procs :
       /\ p # q
       /\ CheckedOut(p) /\ CheckedOut(q)
       /\ res[p].booking = 1 /\ res[q].booking = 1
       /\ res[p].roomNumbers = res[q].roomNumbers
       /\ res[p].roomNumbers = RoomNumbersOf(bookings[1].selectedRooms)
       /\ bookings[1].bookingStatus = "Completed"
       /\ \A rn \in RoomSetOf(bookings[1].selectedRooms) : rooms[rn]

\* the rooms the createBooking or checkout request in slot p has selected: those of
\* the document it holds, of the booking it has committed, or none before it has any
SelectionOf(p) ==
  IF "selectedRooms" \in DOMAIN doc[p].booking
  THEN RoomSetOf(doc[p].booking.selectedRooms)
  ELSE IF InLedger(doc[p].id) THEN RoomSetOf(bookings[doc[p].id].selectedRooms)
  ELSE {}

\* C31: each operation touches only its own booking and rooms.  No step of a
\* createBooking changes a booking that is in the ledger already or the flag of a
\* room outside its selection; a completePayment(id) changes no booking other than id
\* and no room; no step of a checkout changes a booking other than the one it found
\* or the flag of a room outside that booking's selectedRooms.
C31_OperationsTouchOwnDocuments ==
  [][ \A p \in Procs :
        /\ ( /\ pc[p] \in {"c_try", "c_saved", "c_updated", "c_catch", "c_email"}
             /\ pc'[p] # pc[p] )
           => /\ Len(bookings') >= Len(bookings)
              /\ \A i \in 1..Len(bookings) : bookings'[i] = bookings[i]
              /\ \A rn \in DOMAIN rooms \ SelectionOf(p) : rooms'[rn] = rooms[rn]
        /\ \A id \in BookingIds :
             CompletePayment(p, id)
             => /\ Len(bookings') = Len(bookings)
                /\ \A j \in 1..Len(bookings) : j # id => bookings'[j] = bookings[j]
                /\ rooms' = rooms
        /\ ( /\ pc[p] \in {"k_try", "k_found", "k_updated", "k_saved", "k_catch"}
             /\ pc'[p] # pc[p] )
           => /\ Len(bookings') = Len(bookings)
              /\ \A j \in 1..Len(bookings) : j # doc[p].id => bookings'[j] = bookings[j]
              /\ \A rn \in DOMAIN rooms \ SelectionOf(p) : rooms'[rn] = rooms[rn]
    ]_vars

\* C31 witness: a checkout of a booking has succeeded and raised the flag of its
\* room, while another booking is still Confirmed and a room outside the checked-out
\* booking's selection still has its flag lowered.
C31_Witness ==
  \E p \in Procs :
    /\ CheckedOut(p)
    /\ InLedger(res[p].booking)
    /\ bookings[res[p].booking].bookingStatus = "Completed"
    /\ \A rn \in RoomSetOf(bookings[res[p].booking].selectedRooms) \cap DOMAIN rooms : rooms[rn]
    /\ \E j \in 1..Len(bookings) :
         /\ j # res[p].booking
         /\ bookings[j].bookingStatus = "Confirmed"
         /\ bookings[j].paymentStatus = "Pending"
    /\ \E rn \in DOMAIN rooms \ RoomSetOf(bookings[res[p].booking].selectedRooms) : ~rooms[rn]

\* the request in slot p is a completePayment(id) that was answered with success
\* (res.json(booking): status 200 with the updated booking)
PaymentSucceeded(p, id) ==
  /\ pc[p] = "done"
  /\ res[p].status = 200
  /\ res[p].message = ""
  /\ res[p].booking = id
  /\ session[p] = "none"

\* C32: of two completePayment calls made by two clients at the same time on one
\* booking whose paymentStatus is Pending, at most one is answered with success:
\* never do the answers of both request slots report success for the same booking.
C32_OnePaymentOfTwoSucceeds ==
  \A p, q \in Procs :
    \A id \in 1..MaxBookings :
      (p # q /\ PaymentSucceeded(p, id)) => ~PaymentSucceeded(q, id)

\* the requests in slots p and q ran at the same time: one had its transaction in
\* progress when the other started its own
Overlapped(p, q) == q \in conc[p] \/ p \in conc[q]

\* the rooms that two selections share
SharedRooms(selectedA, selectedB) == RoomSetOf(selectedA) \cap RoomSetOf(selectedB)

\* C33: a checkout of booking B1 and a createBooking of B2 that ran at the same time
\* and share a room leave the outcome of a serial order.  When the create commits
\* after the checkout has committed, it commits on the whole outcome of the checkout
\* (B1 Completed, B1's rooms available) and adds its own whole: B2 is appended and
\* every room of B2, the shared one included, has isAvailable = false.  When the
\* checkout commits after the create has committed, it commits on the whole outcome
\* of the create (B2 Confirmed, B2's rooms unavailable) and adds its own whole: B1 is
\* Completed and every room of B1, the shared one included, has isAvailable = true.
\* A request of the pair that ends without committing changes neither a room nor a
\* booking.
C33_CheckoutAndCreateSerial ==
  [][ \A p, q \in Procs :
        (p # q /\ Overlapped(p, q)) =>
          /\ ( /\ pc[p] = "c_updated" /\ pc'[p] = "c_email"
               /\ CheckedOut(q) /\ InLedger(res[q].booking)
               /\ SharedRooms(doc[p].booking.selectedRooms,
                              bookings[res[q].booking].selectedRooms) # {} )
             => /\ bookings[res[q].booking].bookingStatus = "Completed"
                /\ \A rn \in RoomSetOf(bookings[res[q].booking].selectedRooms) \cap DOMAIN rooms :
                     rooms[rn]
                /\ bookings' = Append(bookings, doc[p].booking)
                /\ rooms' = [rn \in DOMAIN rooms |->
                               IF rn \in RoomSetOf(doc[p].booking.selectedRooms)
                               THEN FALSE ELSE rooms[rn]]
          /\ ( /\ pc[p] = "k_saved" /\ pc'[p] = "done"
               /\ Created(q) /\ CreatedId(q) # doc[p].id
               /\ SharedRooms(bookings[doc[p].id].selectedRooms,
                              bookings[CreatedId(q)].selectedRooms) # {} )
             => /\ bookings[CreatedId(q)].bookingStatus = "Confirmed"
                /\ \A rn \in RoomSetOf(bookings[CreatedId(q)].selectedRooms) \cap DOMAIN rooms :
                     ~rooms[rn]
                /\ bookings' = [bookings EXCEPT ![doc[p].id].bookingStatus = "Completed"]
                /\ rooms' = [rn \in DOMAIN rooms |->
                               IF rn \in RoomSetOf(bookings[doc[p].id].selectedRooms)
                               THEN TRUE ELSE rooms[rn]]
          /\ ( /\ pc[p] \in TxnPcs
               /\ pc'[p] \in {"c_catch", "k_catch", "done", "unanswered"}
               /\ pc'[p] # pc[p]
               /\ ~(pc[p] = "k_saved" /\ pc'[p] = "done") )
             => /\ rooms' = rooms
                /\ bookings' = bookings
    ]_vars

\* C33 witness: the checkout of B1 and the create of B2 overlapped and both
\* committed, the create last: B1 is Completed, B2 is Confirmed and the room they
\* share has isAvailable = false.
C33_Witness ==
  \E p, q \in Procs :
    /\ p # q
    /\ Overlapped(p, q)
    /\ Created(p)
    /\ CheckedOut(q)
    /\ InLedger(res[q].booking)
    /\ res[q].booking # CreatedId(p)
    /\ bookings[res[q].booking].bookingStatus = "Completed"
    /\ bookings[CreatedId(p)].bookingStatus = "Confirmed"
    /\ \E rn \in SharedRooms(bookings[res[q].booking].selectedRooms,
                             bookings[CreatedId(p)].selectedRooms) \cap DOMAIN rooms : ~rooms[rn]

====
